---- MODULE Spec2Model ----
(***************************************************************************)
(* Model of src/src/after-review/task_manager.py: the TaskManager class,   *)
(* a CRUD data-access layer over one SQLite table `tasks`.                 *)
(*                                                                         *)
(* Strings are sequences of one-character strings, so that len(), strip()  *)
(* and LIKE are computed character by character.  Optional values (Python  *)
(* None, SQL NULL) are sequences of length at most one: None is <<>> and   *)
(* a present value x is <<x>>.  A timestamp is held as the clock reading,  *)
(* an integer; ORDER BY compares the isoformat() texts of the readings.    *)
(***************************************************************************)
EXTENDS Integers, Sequences, FiniteSets, TLC

VARIABLES
    tasks,            \* the rows of table `tasks`
    sqlite_sequence,  \* AUTOINCREMENT bookkeeping: largest rowid ever issued
    clock,            \* the wall clock datetime.now() reads
    issued,           \* history: the ids add_task has returned, in call order
    last,             \* the last public call: its arguments and its outcome
    callers           \* per caller: the frame of its update_task between the
                      \* two connections of that call, None outside

vars == <<tasks, sqlite_sequence, clock, issued, last, callers>>

----------------------------------------------------------------------------
(* Bounds of the model *)

MaxTasks == 1   \* rows in the table, in Spec and SpecLimits
MaxId == 2      \* ids issued, in Spec and SpecLimits
MaxRows == 2    \* rows in the table, in SpecClock and SpecSearch
MaxRowId == 3   \* ids issued, in SpecClock and SpecSearch
MaxTime == 2    \* clock readings, in SpecClock

(* Program constants *)

MAX_TITLE == 200
MAX_DESCRIPTION == 1000

----------------------------------------------------------------------------
(* Strings *)

Repeat(c, n) == [i \in 1..n |-> c]

Whitespace == {" ", "\t"}

None == <<>>
Some(x) == <<x>>

IsBlank(s) == \A i \in 1..Len(s) : s[i] \in Whitespace

(* str.lstrip() where str.strip() is meant *)
strip_left_only(s) ==
    IF IsBlank(s) THEN <<>>
    ELSE LET first == CHOOSE i \in 1..Len(s) :
                          /\ s[i] \notin Whitespace
                          /\ \A j \in 1..(i-1) : s[j] \in Whitespace
         IN  SubSeq(s, first, Len(s))

(* str.strip(): without its leading and trailing whitespace *)
strip(s) ==
    IF IsBlank(s) THEN <<>>
    ELSE LET first == CHOOSE i \in 1..Len(s) :
                          /\ s[i] \notin Whitespace
                          /\ \A j \in 1..(i-1) : s[j] \in Whitespace
             final == CHOOSE i \in 1..Len(s) :
                          /\ s[i] \notin Whitespace
                          /\ \A j \in (i+1)..Len(s) : s[j] \in Whitespace
         IN  SubSeq(s, first, final)

----------------------------------------------------------------------------
(* class TaskStatus(Enum) *)

TaskStatus == {"pending", "in_progress", "completed", "high", "urgent"}

PENDING == "pending"
HIGH == "high"
URGENT == "urgent"

----------------------------------------------------------------------------
(* The database: [tasks |-> rows, seq |-> sqlite_sequence of table tasks]   *)
(* A row is [id, title, description, status, created_at, updated_at].      *)

Row(id, title, description, status, created_at, updated_at) ==
    [id |-> id, title |-> title, description |-> description,
     status |-> status, created_at |-> created_at, updated_at |-> updated_at]

Max(S) == CHOOSE x \in S : \A y \in S : y <= x

(* What a call returns: the Python type and the value.  Nothing is         *)
(* returned when the call raises.                                          *)
Nothing == <<"none">>
Id(n) == <<"int", n>>
Bool(b) == <<"bool", b>>
OptionalTask(t) == <<"task", t>>
List(l) == <<"list", l>>

(* A result of a call: the database afterwards, how the call ended        *)
(* ("ok" or the name of the exception raised), what it returned, and the   *)
(* storage events it caused, in order.                                     *)
Result(db, outcome, ret, trace) ==
    [db |-> db, outcome |-> outcome, ret |-> ret, trace |-> trace]

(* What can go wrong inside _get_connection: sqlite3.Error raised by       *)
(* connect, by execute or by commit, or ("raise") an exception that is not *)
(* an sqlite3.Error raised in the with-body (OverflowError when a          *)
(* parameter is bound, AttributeError, KeyboardInterrupt).                 *)
Faults == {"none", "connect", "execute", "commit", "raise"}

(* a scope whose except clause raises DatabaseError without rollback() *)
get_connection_without_rollback(fault, statement, db, after, ret) ==
    CASE fault = "connect" ->
            Result(db, "DatabaseError", Nothing, <<"connect failed">>)
      [] fault = "execute" ->
            Result(db, "DatabaseError", Nothing, <<"connect", statement, "close">>)
      [] fault = "commit" ->
            Result(db, "DatabaseError", Nothing,
                   <<"connect", statement, "commit failed", "close">>)
      [] fault = "raise" ->
            Result(db, "Exception", Nothing, <<"connect", statement, "close">>)
      [] OTHER ->
            Result(after, "ok", ret, <<"connect", statement, "commit", "close">>)

(* _get_connection wrapped around one statement.  `db` is the database     *)
(* before, `after` the database the statement produces, `ret` what the     *)
(* with-body returns.  fault names the step that raises, if any.  An       *)
(* exception that is not an sqlite3.Error passes the except clause: only   *)
(* the finally clause runs, and close() discards what was not committed.   *)
get_connection(fault, statement, db, after, ret) ==
    CASE fault = "connect" ->
            Result(db, "DatabaseError", Nothing, <<"connect failed">>)
      [] fault = "execute" ->
            Result(db, "DatabaseError", Nothing,
                   <<"connect", statement, "rollback", "close">>)
      [] fault = "commit" ->
            Result(db, "DatabaseError", Nothing,
                   <<"connect", statement, "commit failed", "rollback", "close">>)
      [] fault = "raise" ->
            Result(db, "Exception", Nothing, <<"connect", statement, "close">>)
      [] OTHER ->
            Result(after, "ok", ret, <<"connect", statement, "commit", "close">>)

(* `not title` alone, without `not title.strip()` *)
title_empty_unstripped(title) == title = <<>>

(* `not title or not title.strip()` *)
title_empty(title) == title = <<>> \/ strip(title) = <<>>

(* `>=` where `>` is meant *)
title_too_long_at_limit(title) == Len(title) >= MAX_TITLE

title_too_long(title) == Len(title) > MAX_TITLE

description_too_long(description) ==
    description # <<>> /\ Len(description) > MAX_DESCRIPTION

(* the status is not checked *)
status_unchecked(status) == FALSE

status_invalid(status) == status \notin TaskStatus

(* _validate_task_data: TRUE when no ValidationError is raised *)
validate_task_data(title, status, description) ==
    /\ ~title_empty(title)
    /\ ~title_too_long(title)
    /\ ~description_too_long(description)
    /\ ~status_invalid(status)

(* INTEGER PRIMARY KEY without AUTOINCREMENT: one more than the largest   *)
(* rowid now in the table.                                                 *)
next_rowid_of_table(db) == Max({0} \cup {r.id : r \in db.tasks}) + 1

(* INTEGER PRIMARY KEY AUTOINCREMENT: one more than the largest rowid the  *)
(* table has ever held.                                                    *)
next_rowid(db) == Max({db.seq} \cup {r.id : r \in db.tasks}) + 1

insert_task(db, title, description, status, created_at) ==
    LET id == next_rowid(db)
    IN  [tasks |-> db.tasks \cup
                     {Row(id, title, description, status, created_at, None)},
         seq   |-> id]

(* the INSERT is committed before the arguments are validated *)
add_task_validating_late(db, title, description, status, now, fault) ==
    LET w == get_connection(fault, "INSERT", db,
                            insert_task(db, strip(title), strip(description), status, now),
                            Id(next_rowid(db)))
    IN  IF w.outcome = "ok" /\ ~validate_task_data(title, status, description)
        THEN Result(w.db, "ValidationError", Nothing, w.trace)
        ELSE w

add_task(db, title, description, status, now, fault) ==
    IF ~validate_task_data(title, status, description)
    THEN Result(db, "ValidationError", Nothing, <<>>)
    ELSE get_connection(fault, "INSERT", db,
                        insert_task(db, strip(title), strip(description), status, now),
                        Id(next_rowid(db)))

select_by_id(db, task_id) == {r \in db.tasks : r.id = task_id}

get_task_by_id(db, task_id, fault) ==
    LET rows == select_by_id(db, task_id)
    IN  get_connection(fault, "SELECT", db, db,
                       OptionalTask(IF rows # {} THEN Some(CHOOSE r \in rows : TRUE)
                                    ELSE None))

(* an UPDATE whose SET list leaves out description *)
update_rows_without_description(db, task_id, title, description, status, updated_at) ==
    [db EXCEPT !.tasks =
        {IF r.id = task_id
         THEN [r EXCEPT !.title = title, !.status = status,
                        !.updated_at = Some(updated_at)]
         ELSE r : r \in db.tasks}]

(* UPDATE tasks SET ... WHERE id = ? *)
update_rows(db, task_id, title, description, status, updated_at) ==
    [db EXCEPT !.tasks =
        {IF r.id = task_id
         THEN [r EXCEPT !.title = title, !.description = description,
                        !.status = status, !.updated_at = Some(updated_at)]
         ELSE r : r \in db.tasks}]

(* `new if new is not None else existing` *)
provided(new, existing) == IF new # None THEN new[1] ELSE existing

(* update_task up to its second connection: the result of the call when   *)
(* it ends there, and otherwise ("validated") the merged fields it goes on *)
(* to write                                                                *)
update_task_read(db, task_id, title, description, status, fault) ==
    LET existing == get_task_by_id(db, task_id, fault)
    IN  IF existing.outcome # "ok" THEN existing
        ELSE IF existing.ret[2] = None
        THEN Result(db, "ok", Bool(FALSE), existing.trace)
        ELSE
          LET existing_task == existing.ret[2][1]
              new_title == provided(title, existing_task.title)
              new_description == provided(description, existing_task.description)
              new_status == provided(status, existing_task.status)
          IN  IF ~validate_task_data(new_title, new_status, new_description)
              THEN Result(db, "ValidationError", Nothing, existing.trace)
              ELSE Result(db, "validated",
                          <<"fields", [title |-> new_title,
                                       description |-> new_description,
                                       status |-> new_status]>>,
                          existing.trace)

(* the second connection of update_task: the UPDATE and `return True`;     *)
(* trace holds the storage events of the call so far                       *)
update_task_write(db, task_id, new, now, fault, trace) ==
    LET w == get_connection(fault, "UPDATE", db,
                            update_rows(db, task_id, strip(new.title),
                                        strip(new.description), new.status, now),
                            Bool(TRUE))
    IN  [w EXCEPT !.trace = trace \o w.trace]

(* title, description, status are optional: None or Some(value) *)
update_task(db, task_id, title, description, status, now, fault1, fault2) ==
    LET r == update_task_read(db, task_id, title, description, status, fault1)
    IN  IF r.outcome # "validated" THEN r
        ELSE update_task_write(db, task_id, r.ret[2], now, fault2, r.trace)

(* a rowcount that does not tell whether a row matched *)
rowcount_always_one(rows) == 1

(* cursor.rowcount after the DELETE *)
rowcount(rows) == Cardinality(rows)

delete_task(db, task_id, fault) ==
    LET rows == select_by_id(db, task_id)
    IN  get_connection(fault, "DELETE", db,
                       [db EXCEPT !.tasks = db.tasks \ rows],
                       Bool(rowcount(rows) > 0))

----------------------------------------------------------------------------
(* Queries that return lists *)

(* datetime.now().isoformat() of a clock reading, which counts half        *)
(* seconds: the seconds in two digits, then the microseconds in six digits *)
(* unless they are zero.  The fields before the seconds have a fixed width *)
(* like them.  A row's created_at holds the reading whose text the column  *)
(* stores.                                                                 *)
Digit(n) == <<"0", "1", "2", "3", "4", "5", "6", "7", "8", "9">>[n + 1]

isoformat(t) ==
    <<Digit((t \div 2) \div 10), Digit((t \div 2) % 10)>>
        \o (IF t % 2 = 0 THEN <<>> ELSE <<".", "5", "0", "0", "0", "0", "0">>)

(* the byte of a character of a timestamp *)
Byte(c) ==
    IF c = "." THEN 46
    ELSE 48 + CHOOSE n \in 0..9 : Digit(n) = c

(* SQLite's BINARY collation of TEXT: the first differing byte decides,    *)
(* and a prefix comes before the longer text                               *)
RECURSIVE text_le(_, _)
text_le(a, b) ==
    IF a = <<>> THEN TRUE
    ELSE IF b = <<>> THEN FALSE
    ELSE IF Head(a) = Head(b) THEN text_le(Tail(a), Tail(b))
    ELSE Byte(Head(a)) < Byte(Head(b))

(* ORDER BY created_at ASC *)
order_by_created_at_asc(rows) ==
    {f \in [1..Cardinality(rows) -> rows] :
        /\ \A i, j \in 1..Cardinality(rows) : i # j => f[i] # f[j]
        /\ \A i, j \in 1..Cardinality(rows) :
              i < j => text_le(isoformat(f[i].created_at), isoformat(f[j].created_at))}

(* ORDER BY created_at DESC: every arrangement of the rows in which        *)
(* created_at never increases.  SQL leaves the order of rows with equal    *)
(* created_at open, so each such arrangement is a possible answer.         *)
order_by_created_at_desc(rows) ==
    {f \in [1..Cardinality(rows) -> rows] :
        /\ \A i, j \in 1..Cardinality(rows) : i # j => f[i] # f[j]
        /\ \A i, j \in 1..Cardinality(rows) :
              i < j => text_le(isoformat(f[j].created_at), isoformat(f[i].created_at))}

select(fault, db, rows) ==
    {get_connection(fault, "SELECT", db, db, List(f)) : f \in order_by_created_at_desc(rows)}

get_all_tasks(db, fault) == select(fault, db, db.tasks)

(* SQLite's LIKE compares ASCII letters without regard to case *)
lower(c) ==
    CASE c = "A" -> "a"
      [] c = "B" -> "b"
      [] OTHER -> c

(* SQLite's LIKE: % matches any run of characters, _ exactly one *)
RECURSIVE like(_, _)
like(s, pattern) ==
    IF pattern = <<>> THEN s = <<>>
    ELSE IF Head(pattern) = "%"
         THEN like(s, Tail(pattern)) \/ (s # <<>> /\ like(Tail(s), pattern))
    ELSE IF s = <<>> THEN FALSE
    ELSE IF Head(pattern) = "_" THEN like(Tail(s), Tail(pattern))
    ELSE lower(Head(s)) = lower(Head(pattern)) /\ like(Tail(s), Tail(pattern))

search_tasks(db, search_term, fault) ==
    select(fault, db, {r \in db.tasks : like(r.title, <<"%">> \o search_term \o <<"%">>)})

filter_by_status(db, status, fault) ==
    IF status \notin TaskStatus
    THEN {Result(db, "ValidationError", Nothing, <<>>)}
    ELSE select(fault, db, {r \in db.tasks : r.status = status})

get_priority_tasks(db, fault) ==
    select(fault, db, {r \in db.tasks : r.status \in {HIGH, URGENT}})

----------------------------------------------------------------------------
(* Inputs of the calls *)

NoFault == "none"

Optional(S) == {None} \cup {Some(x) : x \in S}

(* Spec: valid and invalid field values, with and without padding *)
AddTitles == {<<>>, <<" ">>, <<" ", "b", "\t">>}
AddDescriptions == {<<>>, <<" ", "d">>}
AddStatuses == {"pending", "invalid_status"}
UpdateTitles == {None, Some(<<"\t", "a", "b", " ">>), Some(<<"\t">>)}
UpdateDescriptions == {None, Some(<<>>)}
UpdateStatuses == {None, Some("urgent"), Some("invalid_status")}
FilterStatuses == {"pending", "urgent", "invalid_status"}

(* SpecLimits: titles and descriptions at the length limits *)
LimitTitles ==
    {Repeat("x", MAX_TITLE - 1), Repeat("x", MAX_TITLE), Repeat("x", MAX_TITLE + 1),
     Repeat(" ", MAX_TITLE),
     <<" ">> \o Repeat("x", MAX_TITLE - 1),
     <<" ">> \o Repeat("x", MAX_TITLE),
     Repeat("x", MAX_TITLE - 1) \o <<"\t">>}
LimitDescriptions == {<<>>, Repeat("d", MAX_DESCRIPTION + 1)}
LimitStatuses == {"pending", "invalid_status"}

(* SpecSearch: titles and search terms *)
SearchTitles == {<<"a", "b">>, <<"b", "a">>, <<"B">>}
SearchTerms == {<<>>, <<"b">>, <<"a", "b">>, <<"c">>, <<"_">>, <<"%">>}

----------------------------------------------------------------------------
(* State *)

DB == [tasks |-> tasks, seq |-> sqlite_sequence]

NoArgs == [self |-> "TaskManager"]

Call(op, args, r) ==
    [op |-> op, args |-> args, outcome |-> r.outcome, ret |-> r.ret,
     trace |-> r.trace]

Callers == {"A", "B"}

Init ==
    /\ callers = [c \in Callers |-> None]
    /\ tasks = {}
    /\ sqlite_sequence = 0
    /\ clock = 1
    /\ issued = <<>>
    /\ last = [op |-> "init", args |-> NoArgs, outcome |-> "ok", ret |-> Nothing,
               trace |-> <<>>]

Commit(op, args, r) ==
    /\ tasks' = r.db.tasks
    /\ sqlite_sequence' = r.db.seq
    /\ last' = Call(op, args, r)
    /\ UNCHANGED <<clock, callers>>

(* datetime.now(): the wall clock moves on its own, forwards or (a reset,  *)
(* the end of daylight saving time) backwards.                            *)
Tick ==
    /\ \E t \in 1..MaxTime : t # clock /\ clock' = t
    /\ UNCHANGED <<tasks, sqlite_sequence, issued, last, callers>>

(* max_tasks and max_id bound the table and the ids of a specification *)
AddTask(titles, descriptions, statuses, max_tasks, max_id) ==
    \E title \in titles, description \in descriptions, status \in statuses :
        LET r == add_task(DB, title, description, status, clock, NoFault)
        IN  /\ r.outcome = "ok" => /\ Cardinality(tasks) < max_tasks
                                   /\ sqlite_sequence < max_id
            /\ Commit("add_task",
                      [title |-> title, description |-> description,
                       status |-> status, now |-> clock], r)
            /\ issued' = IF r.outcome = "ok" THEN Append(issued, r.ret[2]) ELSE issued

GetTaskById(max_id) ==
    \E task_id \in 1..max_id :
        /\ Commit("get_task_by_id", [task_id |-> task_id],
                  get_task_by_id(DB, task_id, NoFault))
        /\ UNCHANGED issued

UpdateTask(titles, descriptions, statuses, max_id) ==
    \E task_id \in 1..max_id, title \in titles, description \in descriptions,
       status \in statuses :
        /\ Commit("update_task",
                  [task_id |-> task_id, title |-> title, description |-> description,
                   status |-> status, now |-> clock],
                  update_task(DB, task_id, title, description, status, clock,
                              NoFault, NoFault))
        /\ UNCHANGED issued

DeleteTask(max_id) ==
    \E task_id \in 1..max_id :
        /\ Commit("delete_task", [task_id |-> task_id],
                  delete_task(DB, task_id, NoFault))
        /\ UNCHANGED issued

GetAllTasks ==
    \E r \in get_all_tasks(DB, NoFault) :
        /\ Commit("get_all_tasks", NoArgs, r)
        /\ UNCHANGED issued

SearchTasks(terms) ==
    \E search_term \in terms :
        \E r \in search_tasks(DB, search_term, NoFault) :
            /\ Commit("search_tasks", [search_term |-> search_term], r)
            /\ UNCHANGED issued

FilterByStatus(statuses) ==
    \E status \in statuses :
        \E r \in filter_by_status(DB, status, NoFault) :
            /\ Commit("filter_by_status", [status |-> status], r)
            /\ UNCHANGED issued

GetPriorityTasks ==
    \E r \in get_priority_tasks(DB, NoFault) :
        /\ Commit("get_priority_tasks", NoArgs, r)
        /\ UNCHANGED issued

(* Spec: the calls on single tasks, with valid and invalid arguments, and  *)
(* the two status queries; the clock stands still.                         *)
Next ==
    \/ AddTask(AddTitles, AddDescriptions, AddStatuses, MaxTasks, MaxId)
    \/ GetTaskById(MaxId)
    \/ UpdateTask(UpdateTitles, UpdateDescriptions, UpdateStatuses, MaxId)
    \/ DeleteTask(MaxId)
    \/ FilterByStatus(FilterStatuses)
    \/ GetPriorityTasks

Spec == Init /\ [][Next]_vars

(* SpecLimits: add_task at the length limits of title and description *)
NextLimits ==
    \/ AddTask(LimitTitles, LimitDescriptions, LimitStatuses, MaxTasks, MaxId)
    \/ GetTaskById(MaxId)
    \/ DeleteTask(MaxId)

SpecLimits == Init /\ [][NextLimits]_vars

(* SpecClock: tasks added, updated and deleted while the clock moves, and  *)
(* get_all_tasks.                                                          *)
NextClock ==
    \/ Tick
    \/ AddTask({<<"b">>}, {<<>>}, {PENDING}, MaxRows, MaxRowId)
    \/ UpdateTask({None}, {None}, {None}, MaxRowId)
    \/ DeleteTask(MaxRowId)
    \/ GetAllTasks

SpecClock == Init /\ [][NextClock]_vars

(* SpecSearch: tasks with several titles added and deleted, and search_tasks *)
NextSearch ==
    \/ AddTask(SearchTitles, {<<>>}, {PENDING}, MaxRows, MaxRowId)
    \/ DeleteTask(MaxRowId)
    \/ SearchTasks(SearchTerms)

SpecSearch == Init /\ [][NextSearch]_vars

----------------------------------------------------------------------------
(* Calls during which the storage may fail *)

(* _initialize_database: CREATE TABLE IF NOT EXISTS leaves an existing     *)
(* table as it is                                                          *)
initialize_database(db, fault) ==
    get_connection(fault, "CREATE TABLE", db, db, Nothing)

FaultTitles == {<<>>, <<"b">>}
FaultUpdateTitles == {None, Some(<<"a">>)}
FaultUpdateStatuses == {None, Some("invalid_status")}
FaultStatuses == {"pending", "invalid_status"}

(* update_task opens two connections, one after the other: a fault of the *)
(* second matters only when the first had none                             *)
FaultPairs == {<<fault, NoFault>> : fault \in Faults}
                  \cup {<<NoFault, fault>> : fault \in Faults}

(* the faults of a call are recorded with its arguments, one for each      *)
(* connection the call may open                                            *)
WithFaults(args, faults) == [faults |-> faults] @@ args

(* TaskManager(db_path) on the database file that exists already *)
FaultyNewTaskManager ==
    \E fault \in Faults :
        /\ Commit("__init__", WithFaults(NoArgs, <<fault>>),
                  initialize_database(DB, fault))
        /\ UNCHANGED issued

FaultyAddTask ==
    \E title \in FaultTitles, fault \in Faults :
        LET r == add_task(DB, title, <<>>, PENDING, clock, fault)
        IN  /\ r.outcome = "ok" => /\ Cardinality(tasks) < MaxTasks
                                   /\ sqlite_sequence < MaxId
            /\ Commit("add_task",
                      WithFaults([title |-> title, description |-> <<>>,
                                  status |-> PENDING, now |-> clock], <<fault>>), r)
            /\ issued' = IF r.outcome = "ok" THEN Append(issued, r.ret[2]) ELSE issued

FaultyGetTaskById ==
    \E task_id \in 1..MaxId, fault \in Faults :
        /\ Commit("get_task_by_id", WithFaults([task_id |-> task_id], <<fault>>),
                  get_task_by_id(DB, task_id, fault))
        /\ UNCHANGED issued

FaultyUpdateTask ==
    \E task_id \in 1..MaxId, title \in FaultUpdateTitles,
       status \in FaultUpdateStatuses, faults \in FaultPairs :
        /\ Commit("update_task",
                  WithFaults([task_id |-> task_id, title |-> title,
                              description |-> None, status |-> status,
                              now |-> clock], faults),
                  update_task(DB, task_id, title, None, status, clock,
                              faults[1], faults[2]))
        /\ UNCHANGED issued

FaultyDeleteTask ==
    \E task_id \in 1..MaxId, fault \in Faults :
        /\ Commit("delete_task", WithFaults([task_id |-> task_id], <<fault>>),
                  delete_task(DB, task_id, fault))
        /\ UNCHANGED issued

FaultyQuery ==
    \E fault \in Faults :
        /\ \/ \E r \in get_all_tasks(DB, fault) :
                Commit("get_all_tasks", WithFaults(NoArgs, <<fault>>), r)
           \/ \E r \in search_tasks(DB, <<"b">>, fault) :
                Commit("search_tasks",
                       WithFaults([search_term |-> <<"b">>], <<fault>>), r)
           \/ \E status \in FaultStatuses :
                \E r \in filter_by_status(DB, status, fault) :
                    Commit("filter_by_status",
                           WithFaults([status |-> status], <<fault>>), r)
           \/ \E r \in get_priority_tasks(DB, fault) :
                Commit("get_priority_tasks", WithFaults(NoArgs, <<fault>>), r)
        /\ UNCHANGED issued

(* SpecFaults: every public operation, the storage failing or not *)
NextFaults ==
    \/ FaultyNewTaskManager
    \/ FaultyAddTask
    \/ FaultyGetTaskById
    \/ FaultyUpdateTask
    \/ FaultyDeleteTask
    \/ FaultyQuery

SpecFaults == Init /\ [][NextFaults]_vars

----------------------------------------------------------------------------
(* Two callers on one database file.  Each connection is one transaction,  *)
(* and SQLite's file lock lets the transactions of the callers take effect *)
(* one at a time: a call of one connection is one step.  update_task has   *)
(* two connections, and the other caller's transactions can come between.  *)

ConcurrentTitles == {None, Some(<<"a">>)}
ConcurrentStatuses == {None, Some("urgent")}

(* a caller that is not inside update_task makes a call of one connection *)
SomeCallerIdle == \E c \in Callers : callers[c] = None

(* update_task from its start to the end of get_task_by_id's connection    *)
(* and the validation: the call ends here, or goes on to the UPDATE        *)
UpdateTaskRead(c) ==
    /\ callers[c] = None
    /\ \E task_id \in 1..MaxId, title \in ConcurrentTitles,
          status \in ConcurrentStatuses :
        LET args == [task_id |-> task_id, title |-> title, description |-> None,
                     status |-> status, now |-> clock]
            r == update_task_read(DB, task_id, title, None, status, NoFault)
        IN  IF r.outcome = "validated"
            THEN /\ callers' = [callers EXCEPT
                                  ![c] = Some([args |-> args, new |-> r.ret[2],
                                               trace |-> r.trace])]
                 /\ UNCHANGED last
            ELSE /\ last' = Call("update_task", args, r)
                 /\ UNCHANGED callers
    /\ UNCHANGED <<tasks, sqlite_sequence, clock, issued>>

(* the connection of update_task that runs the UPDATE, and its return *)
UpdateTaskWrite(c) ==
    /\ callers[c] # None
    /\ LET frame == callers[c][1]
           r == update_task_write(DB, frame.args.task_id, frame.new, clock,
                                  NoFault, frame.trace)
       IN  /\ tasks' = r.db.tasks
           /\ sqlite_sequence' = r.db.seq
           /\ last' = Call("update_task", frame.args, r)
    /\ callers' = [callers EXCEPT ![c] = None]
    /\ UNCHANGED <<clock, issued>>

NextConcurrent ==
    \/ SomeCallerIdle /\ AddTask({<<"b">>}, {<<"d">>}, {PENDING}, MaxTasks, MaxId)
    \/ SomeCallerIdle /\ DeleteTask(MaxId)
    \/ \E c \in Callers : UpdateTaskRead(c)
    \/ \E c \in Callers : UpdateTaskWrite(c)

SpecConcurrent == Init /\ [][NextConcurrent]_vars

----------------------------------------------------------------------------
(* What the specification of the task store calls valid, and trimmed *)

(* t is s without leading and trailing whitespace *)
IsTrimOf(t, s) ==
    \E i, j \in 0..Len(s) :
        /\ i + j <= Len(s)
        /\ \A k \in 1..i : s[k] \in Whitespace
        /\ \A k \in (Len(s) - j + 1)..Len(s) : s[k] \in Whitespace
        /\ t = SubSeq(s, i + 1, Len(s) - j)
        /\ t # <<>> => t[1] \notin Whitespace /\ t[Len(t)] \notin Whitespace

ValidInput(title, description, status) ==
    /\ ~IsBlank(title)
    /\ Len(title) <= MAX_TITLE
    /\ Len(description) <= MAX_DESCRIPTION
    /\ status \in TaskStatus

StoredIds == {r.id : r \in tasks}

(* a step that is a public call (the clock steps on its own) *)
Called(op) == last'.op = op /\ clock' = clock

----------------------------------------------------------------------------
(* C1: for every valid (title, description, status), add_task succeeds     *)
(* and get_task_by_id on the id it returns yields a task whose title and   *)
(* description are the trimmed arguments, whose status is the argument and *)
(* whose updated_at is null.                                               *)
C1_AddThenGet ==
    last.op = "add_task" =>
        LET a == last.args
        IN  /\ ValidInput(a.title, a.description, a.status) => last.outcome = "ok"
            /\ last.outcome = "ok" =>
                 LET g == get_task_by_id(DB, last.ret[2], NoFault)
                 IN  /\ g.outcome = "ok"
                     /\ g.ret[2] # None
                     /\ IsTrimOf(g.ret[2][1].title, a.title)
                     /\ IsTrimOf(g.ret[2][1].description, a.description)
                     /\ g.ret[2][1].status = a.status
                     /\ g.ret[2][1].updated_at = None

(* an add_task whose title and description were both padded has succeeded *)
C1_Witness ==
    /\ last.op = "add_task"
    /\ last.outcome = "ok"
    /\ \E r \in tasks :
        /\ r.id = last.ret[2]
        /\ Len(r.title) < Len(last.args.title)
        /\ Len(r.description) < Len(last.args.description)

----------------------------------------------------------------------------
BlankTitleCall ==
    \/ last.op = "add_task" /\ IsBlank(last.args.title)
    \/ /\ last.op = "update_task"
       /\ last.args.title # None
       /\ IsBlank(last.args.title[1])

(* C2, as claimed: an empty or whitespace-only title makes add_task and    *)
(* update_task raise ValidationError, whatever the task id and the store.  *)
C2_Original == BlankTitleCall => last.outcome = "ValidationError"

(* C2, amended: an empty or whitespace-only title makes add_task raise     *)
(* ValidationError, and update_task raise it when a task with the id is    *)
(* stored; for an id with no task update_task returns False and does not   *)
(* raise.  (A call that fails so leaves the table as it was, so the id is  *)
(* stored after the call exactly if it was before.)                        *)
C2_BlankTitle ==
    BlankTitleCall =>
        IF last.op = "update_task" /\ last.args.task_id \notin StoredIds
        THEN last.outcome = "ok" /\ last.ret = Bool(FALSE)
        ELSE last.outcome = "ValidationError"

(* update_task with a whitespace-only title on a stored task has raised *)
C2_Witness ==
    /\ last.op = "update_task"
    /\ last.args.title = Some(<<"\t">>)
    /\ last.args.task_id \in StoredIds
    /\ last.outcome = "ValidationError"

----------------------------------------------------------------------------
(* C6: every stored task has a title that is neither empty nor             *)
(* whitespace-only and a status of the enumeration, so filter_by_status    *)
(* and get_priority_tasks return no task with another status.              *)
C6_StoredTasksValid ==
    /\ \A r \in tasks : r.title # <<>> /\ ~IsBlank(r.title) /\ r.status \in TaskStatus
    /\ (last.op \in {"filter_by_status", "get_priority_tasks"} /\ last.outcome = "ok") =>
          \A i \in 1..Len(last.ret[2]) : last.ret[2][i].status \in TaskStatus

(* get_priority_tasks has returned a task: one whose status an update set *)
C6_Witness ==
    /\ last.op = "get_priority_tasks"
    /\ last.outcome = "ok"
    /\ last.ret[2] # <<>>

----------------------------------------------------------------------------
(* C7: the id add_task returns differs from every id an earlier add_task   *)
(* returned, deleted since or not.                                         *)
C7_IdsNeverReused ==
    \A i, j \in 1..Len(issued) : i # j => issued[i] # issued[j]

(* add_task has returned an id after the task with the highest id so far   *)
(* was deleted and the table was empty                                     *)
C7_Witness ==
    /\ last.op = "add_task"
    /\ last.outcome = "ok"
    /\ Len(issued) >= 2
    /\ StoredIds = {last.ret[2]}

----------------------------------------------------------------------------
(* The task stored under an id before the step, and after it *)
TaskBefore(task_id) == {r \in tasks : r.id = task_id}
TaskAfter(task_id) == {r \in tasks' : r.id = task_id}

(* C3: update_task returns False, raises nothing and changes nothing when  *)
(* no task has the id.  Otherwise, when the supplied fields merged over    *)
(* the stored ones are valid, it returns True and the task then holds each *)
(* supplied field, trimmed, and the prior value of each field not          *)
(* supplied, with updated_at set (also when no field is supplied); the     *)
(* other tasks stay as they were.                                          *)
C3_Update ==
    [][Called("update_task") =>
        LET a == last'.args
        IN  IF TaskBefore(a.task_id) = {}
            THEN /\ last'.outcome = "ok"
                 /\ last'.ret = Bool(FALSE)
                 /\ UNCHANGED <<tasks, sqlite_sequence>>
            ELSE LET old == CHOOSE r \in TaskBefore(a.task_id) : TRUE
                     title == IF a.title = None THEN old.title ELSE a.title[1]
                     description == IF a.description = None THEN old.description
                                    ELSE a.description[1]
                     status == IF a.status = None THEN old.status ELSE a.status[1]
                 IN  ValidInput(title, description, status) =>
                       /\ last'.outcome = "ok"
                       /\ last'.ret = Bool(TRUE)
                       /\ \E new \in TaskAfter(a.task_id) :
                            /\ TaskAfter(a.task_id) = {new}
                            /\ IF a.title = None THEN new.title = old.title
                               ELSE IsTrimOf(new.title, a.title[1])
                            /\ IF a.description = None
                               THEN new.description = old.description
                               ELSE IsTrimOf(new.description, a.description[1])
                            /\ new.status = status
                            /\ new.updated_at = Some(a.now)
                            /\ new.created_at = old.created_at
                       /\ tasks' \ TaskAfter(a.task_id) = tasks \ TaskBefore(a.task_id)
                       /\ UNCHANGED sqlite_sequence
    ]_vars

(* an update_task that supplied a title and no description has returned    *)
(* True on a task whose description was not empty                          *)
C3_Witness ==
    /\ last.op = "update_task"
    /\ last.ret = Bool(TRUE)
    /\ last.args.title # None
    /\ last.args.description = None
    /\ \E r \in tasks : r.id = last.args.task_id /\ r.description # <<>>

----------------------------------------------------------------------------
(* C4: delete_task returns True exactly when a task with the id was stored *)
(* and removes it, after which get_task_by_id returns None; with no such   *)
(* task it returns False, raises nothing and leaves the table as it was,   *)
(* as a second delete_task of the same id does.                            *)
C4_Delete ==
    [][Called("delete_task") =>
        LET id == last'.args.task_id
        IN  /\ last'.outcome = "ok"
            /\ last'.ret = Bool(TaskBefore(id) # {})
            /\ tasks' = tasks \ TaskBefore(id)
            /\ TaskBefore(id) = {} => tasks' = tasks
            /\ get_task_by_id([tasks |-> tasks', seq |-> sqlite_sequence'],
                              id, NoFault).ret = OptionalTask(None)
            /\ UNCHANGED sqlite_sequence
    ]_vars

(* a delete_task has returned False for an id that add_task had issued:    *)
(* the task was deleted before                                             *)
C4_Witness ==
    /\ last.op = "delete_task"
    /\ last.ret = Bool(FALSE)
    /\ \E i \in 1..Len(issued) : issued[i] = last.args.task_id

----------------------------------------------------------------------------
RaisedValidationError ==
    /\ last'.op \in {"add_task", "update_task", "filter_by_status"}
    /\ clock' = clock
    /\ last'.outcome = "ValidationError"

(* C5, as claimed: in add_task, update_task and filter_by_status a         *)
(* validation failure is raised before any storage interaction, and the    *)
(* stored tasks are as before.                                             *)
C5_Original ==
    [][RaisedValidationError =>
        /\ last'.trace = <<>>
        /\ UNCHANGED <<tasks, sqlite_sequence>>
    ]_vars

(* C5, amended: in add_task and filter_by_status a validation failure is   *)
(* raised before any storage interaction; in update_task it is raised      *)
(* after get_task_by_id has opened a connection, run its SELECT, committed *)
(* and closed, and before any other storage interaction.  In all three the *)
(* stored tasks are as before.                                             *)
C5_ValidationBeforeWrite ==
    [][RaisedValidationError =>
        /\ last'.trace = IF last'.op = "update_task"
                         THEN <<"connect", "SELECT", "commit", "close">>
                         ELSE <<>>
        /\ UNCHANGED <<tasks, sqlite_sequence>>
    ]_vars

(* an update_task of a stored task with an invalid status has raised *)
C5_Witness ==
    /\ last.op = "update_task"
    /\ last.outcome = "ValidationError"
    /\ last.args.status = Some("invalid_status")
    /\ last.args.task_id \in StoredIds

----------------------------------------------------------------------------
(* an add_task whose description and status are valid *)
AddedWithValidRest ==
    /\ last.op = "add_task"
    /\ Len(last.args.description) <= MAX_DESCRIPTION
    /\ last.args.status \in TaskStatus

Succeeded ==
    /\ last.outcome = "ok"
    /\ last.ret[1] = "int"
    /\ last.ret[2] \in StoredIds

(* C8, as claimed: every title longer than 200 characters is rejected with *)
(* ValidationError, and add_task succeeds for every title of exactly 200   *)
(* characters given a valid status and description.                        *)
C8_Original ==
    last.op = "add_task" =>
        /\ Len(last.args.title) > MAX_TITLE => last.outcome = "ValidationError"
        /\ (AddedWithValidRest /\ Len(last.args.title) = MAX_TITLE) => Succeeded

(* C8, amended: every title longer than 200 characters is rejected with    *)
(* ValidationError, and add_task succeeds for every title of exactly 200   *)
(* characters that is not whitespace-only, given a valid status and        *)
(* description.                                                            *)
C8_TitleLimit ==
    last.op = "add_task" =>
        /\ Len(last.args.title) > MAX_TITLE => last.outcome = "ValidationError"
        /\ (AddedWithValidRest /\ Len(last.args.title) = MAX_TITLE
                /\ ~IsBlank(last.args.title)) => Succeeded

(* an add_task with a title of exactly 200 characters has succeeded *)
C8_Witness ==
    /\ last.op = "add_task"
    /\ Len(last.args.title) = MAX_TITLE
    /\ Succeeded

----------------------------------------------------------------------------
(* the list a query returned *)
Returned == last.ret[2]

(* the list holds every stored task exactly once, and nothing else *)
EveryStoredTaskOnce ==
    /\ Len(Returned) = Cardinality(tasks)
    /\ {Returned[i] : i \in 1..Len(Returned)} = tasks
    /\ \A i, j \in 1..Len(Returned) : Returned[i].id = Returned[j].id => i = j

(* the ids add_task issued that are no longer stored *)
DeletedIds == {issued[i] : i \in 1..Len(issued)} \ StoredIds

NoDeletedTask == \A i \in 1..Len(Returned) : Returned[i].id \notin DeletedIds

(* C9, as claimed: get_all_tasks returns every stored task exactly once    *)
(* and no deleted task, and of two returned tasks the one created later    *)
(* (the one add_task made later, which has the higher id) never comes      *)
(* after the one created earlier.                                          *)
C9_Original ==
    last.op = "get_all_tasks" =>
        /\ EveryStoredTaskOnce
        /\ NoDeletedTask
        /\ \A i, j \in 1..Len(Returned) :
              Returned[i].id > Returned[j].id => i < j

(* C9, amended: get_all_tasks returns every stored task exactly once and   *)
(* no deleted task, and of two returned tasks the one whose created_at is  *)
(* later never comes after the one whose created_at is earlier.            *)
C9_NewestFirst ==
    last.op = "get_all_tasks" =>
        /\ EveryStoredTaskOnce
        /\ NoDeletedTask
        /\ \A i, j \in 1..Len(Returned) :
              Returned[i].created_at > Returned[j].created_at => i < j

(* get_all_tasks has returned two tasks of different created_at, the later *)
(* one made by the earlier add_task, after a task was deleted              *)
C9_Witness ==
    /\ last.op = "get_all_tasks"
    /\ Len(Returned) = 2
    /\ Returned[1].created_at > Returned[2].created_at
    /\ Returned[1].id < Returned[2].id
    /\ DeletedIds # {}

----------------------------------------------------------------------------
(* s holds term as a contiguous run of characters, letters compared as     *)
(* LIKE compares them                                                      *)
Contains(s, term) ==
    \E k \in 0..(Len(s) - Len(term)) :
        \A i \in 1..Len(term) : lower(s[k + i]) = lower(term[i])

(* C10: search_tasks(term) returns exactly the stored tasks whose title    *)
(* holds the term as a contiguous substring, each once, and so the empty   *)
(* list when no stored title holds it.                                     *)
C10_Search ==
    last.op = "search_tasks" =>
        /\ {Returned[i] : i \in 1..Len(Returned)}
              = {r \in tasks : Contains(r.title, last.args.search_term)}
        /\ \A i, j \in 1..Len(Returned) : Returned[i] = Returned[j] => i = j

----------------------------------------------------------------------------
(* the faults that are failures of the storage: sqlite3.Error *)
StorageFaults == {"connect", "execute", "commit"}

(* The step is a call during which the storage fails: a fault is set for a *)
(* connection the call comes to open.  add_task and filter_by_status open  *)
(* theirs after validation; update_task opens its second one when the      *)
(* first found the task and the merged fields are valid.                   *)
StorageFails ==
    /\ "faults" \in DOMAIN last'.args
    /\ LET a == last'.args
           f == a.faults
       IN  CASE last'.op = "add_task" ->
                  /\ ValidInput(a.title, a.description, a.status)
                  /\ f[1] \in StorageFaults
             [] last'.op = "filter_by_status" ->
                  a.status \in TaskStatus /\ f[1] \in StorageFaults
             [] last'.op = "update_task" ->
                  \/ f[1] \in StorageFaults
                  \/ /\ f[1] = NoFault
                     /\ f[2] \in StorageFaults
                     /\ \E old \in TaskBefore(a.task_id) :
                          ValidInput(IF a.title = None THEN old.title ELSE a.title[1],
                                     old.description,
                                     IF a.status = None THEN old.status ELSE a.status[1])
             [] OTHER -> f[1] \in StorageFaults

(* the storage events of the connection the call opened last *)
LastConnection(trace) ==
    LET start == Max({i \in 1..Len(trace) : trace[i] \in {"connect", "connect failed"}})
    IN  SubSeq(trace, start, Len(trace))

RaisedDatabaseError ==
    /\ last'.outcome = "DatabaseError"
    /\ last'.ret = Nothing
    /\ tasks' = tasks

(* C11, as claimed: when connect, execute or commit fails during a public  *)
(* operation, the operation does not return normally: it rolls back,       *)
(* raises DatabaseError, and the stored tasks are as before the call.      *)
C11_Original ==
    [][StorageFails =>
        /\ RaisedDatabaseError
        /\ \E i \in 1..Len(last'.trace) : last'.trace[i] = "rollback"
    ]_vars

(* C11, amended: when connect, execute or commit fails during a public     *)
(* operation, the operation does not return normally: it raises            *)
(* DatabaseError and the stored tasks are as before the call; when execute *)
(* or commit failed it has rolled back and then closed the connection;     *)
(* when connect failed no connection exists and nothing is rolled back.    *)
C11_StorageFailure ==
    [][StorageFails =>
        /\ RaisedDatabaseError
        /\ LET c == LastConnection(last'.trace)
           IN  IF c[1] = "connect failed"
               THEN c = <<"connect failed">>
               ELSE /\ Len(c) >= 3
                    /\ SubSeq(c, Len(c) - 1, Len(c)) = <<"rollback", "close">>
                    /\ \A i \in 1..Len(c) : c[i] # "commit"
    ]_vars

(* the commit of a valid add_task has failed: the call raised *)
(* DatabaseError after the INSERT ran                                      *)
C11_Witness ==
    /\ last.op = "add_task"
    /\ last.args.faults = <<"commit">>
    /\ last.outcome = "DatabaseError"
    /\ \E i \in 1..Len(last.trace) : last.trace[i] = "INSERT"

----------------------------------------------------------------------------
(* the connection opened at position i of the trace is committed or rolled *)
(* back, and closed right after that, before another one is opened         *)
Released(trace, i) ==
    \E j \in (i + 1)..(Len(trace) - 1) :
        /\ trace[j] \in {"commit", "rollback"}
        /\ trace[j + 1] = "close"
        /\ \A k \in (i + 1)..j : trace[k] # "connect"

Count(trace, event) == Cardinality({i \in 1..Len(trace) : trace[i] = event})

(* C12: every connection a public operation opens is released on every     *)
(* exit path, early returns in the scope and exceptions of any kind        *)
(* included: it is committed on success or rolled back on failure, and     *)
(* then closed, so that none is open when the operation has returned or    *)
(* raised.                                                                 *)
C12_Released ==
    /\ \A i \in 1..Len(last.trace) :
          last.trace[i] = "connect" => Released(last.trace, i)
    /\ last.outcome = "ok" => Count(last.trace, "rollback") = 0
    /\ (last.outcome \in {"DatabaseError", "Exception"}
          /\ LastConnection(last.trace)[1] = "connect") =>
              Count(LastConnection(last.trace), "rollback") = 1
    /\ Count(last.trace, "connect") = Count(last.trace, "close")

(* the same, of the calls in which no exception other than sqlite3.Error   *)
(* is raised in the scope                                                  *)
C12_ReleasedOnStorageErrors ==
    ("faults" \in DOMAIN last.args
        /\ \A i \in 1..Len(last.args.faults) : last.args.faults[i] # "raise")
    => C12_Released

(* whatever is raised, a connection that was opened is closed *)
C12_Closed ==
    /\ Count(last.trace, "connect") = Count(last.trace, "close")
    /\ last.trace # <<>> => last.trace[Len(last.trace)] \in {"close", "connect failed"}

----------------------------------------------------------------------------
(* the step in which caller c's update_task returns True *)
UpdateReturnsTrue(c) ==
    /\ callers[c] # None
    /\ callers'[c] = None
    /\ last'.op = "update_task"
    /\ last'.ret = Bool(TRUE)

(* C13: with two callers on the same store, an update_task that returns    *)
(* True has written a task that existed at the time of the write, and the  *)
(* fields it did not supply keep the value they had immediately before its *)
(* write: no update or delete of the other caller is lost or overwritten   *)
(* with stale values.                                                      *)
C13_NoLostUpdate ==
    [][\A c \in Callers :
        UpdateReturnsTrue(c) =>
            LET a == last'.args
            IN  \E old \in TaskBefore(a.task_id) :
                  \E new \in TaskAfter(a.task_id) :
                    /\ a.title = None => new.title = old.title
                    /\ a.description = None => new.description = old.description
                    /\ a.status = None => new.status = old.status
    ]_vars

(* the same, of a task the other caller deleted meanwhile only *)
C13_WrittenTaskExists ==
    [][\A c \in Callers :
        UpdateReturnsTrue(c) => TaskBefore(last'.args.task_id) # {}
    ]_vars

(* the same, of a task the other caller updated meanwhile only *)
C13_UnsuppliedFieldsKept ==
    [][\A c \in Callers :
        UpdateReturnsTrue(c) =>
            \A old \in TaskBefore(last'.args.task_id) :
              \E new \in TaskAfter(last'.args.task_id) :
                /\ last'.args.title = None => new.title = old.title
                /\ last'.args.status = None => new.status = old.status
    ]_vars

====
